---- MODULE Spec2Model ----
(***************************************************************************)
(* The agentic tool-calling loop of the course-materials chatbot:          *)
(* AIGenerator.generate_response / _execute_tool_calls                     *)
(* (backend/ai_generator.py), driven by the query orchestrator through the *)
(* tool registry and the retrieval tool.                                   *)
(*                                                                         *)
(* Texts are sequences of string tokens, so that concatenation, prefixing  *)
(* and wrapping are real operations on them.  Python's None is the empty   *)
(* sequence, a present optional value v is <<v>>.                          *)
(*                                                                         *)
(* Specifications:                                                         *)
(*   Spec      one orchestrator serving queries without session, one after *)
(*             the other, the backend asking for up to MaxUses tool uses;  *)
(*   SpecApp   the endpoint, the orchestrator with sessions, and           *)
(*             generate_response called on its own (AppUses tool uses);    *)
(*   SpecConc  ConcQueries queries running at the same time on a shared    *)
(*             registry or on one registry each;                           *)
(*   SpecLive  Spec for LiveCalls queries, with weak fairness on the steps *)
(*             of generate_response.                                       *)
(***************************************************************************)
EXTENDS Integers, Sequences, FiniteSets, TLC

(***************************************************************************)
(* Bounds of the model.                                                    *)
(***************************************************************************)
\* queries served one after the other
MaxQueries == 2
\* tool-use blocks in one response
MaxBlocks == 2
\* tool-use blocks the backend issues in one query of Spec
MaxUses == 3
\* chunks a search matches
MaxChunks == 2
\* tool-use blocks the backend issues in one call of SpecApp
AppUses == 1
\* queries running at the same time in SpecConc
ConcQueries == 2
\* searches of one query in SpecConc
ConcSearches == 1
\* queries served in SpecLive
LiveCalls == 1
\* tool-use blocks the backend issues in one query of SpecLive
LiveUses == 2

(***************************************************************************)
(* Program constants.                                                      *)
(***************************************************************************)
MAX_TOOL_ROUNDS == 2

SYSTEM_PROMPT == <<"SYSTEM_PROMPT">>

base_params == [model |-> "model", temperature |-> 0, max_tokens |-> 800]

ErrorMarker == <<"Tool execution error: ">>

None == <<>>

VARIABLES
    pc,             \* position of the (single-threaded) query
    qn,             \* number of queries started on this orchestrator
    raw_text,       \* Orchestrator.query argument
    messages,       \* generate_response: messages
    system_content, \* generate_response: system_content
    tools,          \* generate_response argument: the tool catalog (None if absent)
    tool_manager,   \* generate_response argument: TRUE iff an executor was supplied
    round,          \* generate_response: completed iterations of the round loop
    response,       \* generate_response: response of the current round
    bi,             \* _execute_tool_calls: index of the next content block
    tool_results,   \* _execute_tool_calls: tool_results
    had_error,      \* _execute_tool_calls: had_error
    result,         \* value returned by generate_response (None before it returns)
    exc,            \* exception propagating out of the query (None if none)
    last_sources,   \* the retrieval tool's citation list
    sources,        \* Orchestrator.query: citations read from the registry
    requests,       \* history: the model requests of this query, with their responses
    execs,          \* history: the execute_tool calls of this query
    searches,       \* history: chunks matched by each retrieval execution of this query
    via,            \* entry point of the running call: "api", "query" or "generate"
    session_id,     \* Orchestrator.query argument (None if absent)
    history,        \* generate_response argument conversation_history (None if absent)
    sessions,       \* the session store: session id -> exchanges
    session_counter, \* the session store: number of sessions created
    reply,          \* value returned by Orchestrator.query (None before it returns)
    http_request,   \* the /api/query request being served (None if none)
    http_response,  \* the response of the endpoint (None before it responds)
    tool_budget,    \* backend: tool-use blocks it issues at most in this query
    trace,          \* history: the calls made while serving this query, in order
    shared,         \* concurrent serving: the queries share one tool registry
    registries,     \* concurrent serving: citation list of each registry
    queries         \* concurrent serving: the state of each running query

vars == <<pc, qn, raw_text, messages, system_content, tools, tool_manager, round,
          response, bi, tool_results, had_error, result, exc, last_sources,
          sources, requests, execs, searches, via, session_id,
          history, sessions, session_counter, reply, http_request,
          http_response, tool_budget, trace, shared, registries, queries>>

\* the state of concurrent serving
concVars == <<shared, registries, queries>>

\* what only the entry points set
callVars == <<qn, raw_text, via, session_id, history, session_counter,
              http_request, tool_budget>>

ctlVars == <<messages, system_content, tools, tool_manager, round, response, bi,
             tool_results, had_error, result>>

(***************************************************************************)
(* Content blocks and messages.                                            *)
(***************************************************************************)
TextBlock(t) == [type |-> "text", text |-> t]

ToolUseBlock(name, id, input) ==
    [type |-> "tool_use", name |-> name, id |-> id, input |-> input]

ToolResult(id, content) ==
    [type |-> "tool_result", tool_use_id |-> id, content |-> content]

Message(role, content) == [role |-> role, content |-> content]

NoResponse == [stop_reason |-> "none", content |-> <<>>]

\* an entry of the call trace
Call(op) == [op |-> op]

(***************************************************************************)
(* Small helpers.                                                          *)
(***************************************************************************)
Range(s) == {s[i] : i \in 1..Len(s)}

Last(s) == s[Len(s)]

RECURSIVE Join(_, _)
\* sep.join(parts), parts a sequence of texts
Join(parts, sep) ==
    IF parts = <<>> THEN <<>>
    ELSE IF Len(parts) = 1 THEN parts[1]
    ELSE parts[1] \o sep \o Join(Tail(parts), sep)

(***************************************************************************)
(* The retrieval store (external collaborator): what a search can return   *)
(* and which lesson links it resolves.                                     *)
(***************************************************************************)
Chunk(i) ==
    [course_title |-> <<"Course ", ToString(i)>>,
     lesson_number |-> IF i % 2 = 1 THEN <<i>> ELSE None,
     text |-> <<"doc", ToString(i)>>]

get_lesson_link(course_title, lesson_number) ==
    IF lesson_number = 1 THEN <<"https://example.com/lesson">> ELSE None

\* the ranked chunks a search can match: the best n of the store, n = 0, 1, ...
ChunkRuns == {[k \in 1..n |-> Chunk(k)] : n \in 0..MaxChunks}

SearchResults(documents, error) == [documents |-> documents, error |-> error]

StoreSearch ==
    {SearchResults(<<>>, <<"search failed">>)}
        \cup {SearchResults(r, None) : r \in ChunkRuns}

(***************************************************************************)
(* The retrieval tool: CourseSearchTool.execute.                           *)
(***************************************************************************)
SourceLabel(chunk) ==
    chunk.course_title \o
        (IF chunk.lesson_number # None
            THEN <<" - Lesson ", ToString(chunk.lesson_number[1])>>
            ELSE <<>>)

Citation(chunk) ==
    LET link == IF chunk.lesson_number # None
                   THEN get_lesson_link(chunk.course_title, chunk.lesson_number[1])
                   ELSE None
    IN  IF link # None
           THEN <<"<a href=\"">> \o link \o <<"\">">> \o SourceLabel(chunk) \o <<"</a>">>
           ELSE SourceLabel(chunk)

FormatChunk(chunk) == <<"[">> \o SourceLabel(chunk) \o <<"]", "\n">> \o chunk.text

FormatResults(documents) ==
    Join([i \in 1..Len(documents) |-> FormatChunk(documents[i])], <<"\n\n">>)

NoContentMessage(input) ==
    <<"No relevant content found">>
        \o (IF "course_name" \in DOMAIN input
               THEN <<" in course '", input.course_name, "'">> ELSE <<>>)
        \o (IF "lesson_number" \in DOMAIN input
               THEN <<" in lesson ", ToString(input.lesson_number)>> ELSE <<>>)
        \o <<".">>

\* the citation list the tool holds after an execution that got `results`
SearchSources(results) ==
    [i \in 1..Len(results.documents) |-> Citation(results.documents[i])]

\* faulty variant: the citations of an execution are appended to the list
SearchExecuteAppending(input, results, cur) ==
    [raised |-> FALSE,
     value |-> IF results.error # None THEN results.error
               ELSE IF results.documents = <<>> THEN NoContentMessage(input)
               ELSE FormatResults(results.documents),
     sources |-> cur \o SearchSources(results),
     matched |-> <<results.documents>>]

\* execute: the citation list cur is overwritten, whatever the store reported
SearchExecute(input, results, cur) ==
    [raised |-> FALSE,
     value |-> IF results.error # None THEN results.error
               ELSE IF results.documents = <<>> THEN NoContentMessage(input)
               ELSE FormatResults(results.documents),
     sources |-> SearchSources(results),
     matched |-> <<results.documents>>]

(***************************************************************************)
(* The outline tool: no citations, fails to a text, never raises.          *)
(***************************************************************************)
OutlineExecute(input) ==
    IF input.course_name = "A"
       THEN <<"Course: ", input.course_name, "\n", "Lessons:">>
       ELSE <<"No course found matching '", input.course_name, "'">>

(***************************************************************************)
(* The tool registry: ToolManager.                                         *)
(***************************************************************************)
SEARCH == "search_course_content"

OUTLINE == "get_course_outline"

\* registered tools, in registration order
Registered == <<SEARCH, OUTLINE>>

\* parameters of each tool's execute: required and optional names
ToolParams(name) ==
    IF name = SEARCH
       THEN [required |-> {"query"}, optional |-> {"course_name", "lesson_number"}]
       ELSE [required |-> {"course_name"}, optional |-> {}]

get_tool_definitions ==
    [i \in 1..Len(Registered) |->
        [name |-> Registered[i],
         required |-> ToolParams(Registered[i]).required]]

\* tool.execute(**input) binds: every required name given, no unknown name
Binds(name, input) ==
    /\ ToolParams(name).required \subseteq DOMAIN input
    /\ DOMAIN input \subseteq ToolParams(name).required \cup ToolParams(name).optional

Raise(message, cur) ==
    [raised |-> TRUE, value |-> message, sources |-> cur, matched |-> None]

\* the possible outcomes of tool_manager.execute_tool(name, **input) when the
\* retrieval tool holds the citation list cur
execute_tool(name, input, cur) ==
    IF name \notin Range(Registered)
       THEN {Raise(<<"No such tool: ", name>>, cur)}
    ELSE IF ~Binds(name, input)
       THEN {Raise(<<"execute() got bad arguments">>, cur)}
    ELSE IF name = SEARCH
       THEN {SearchExecute(input, r, cur) : r \in StoreSearch}
    ELSE {[raised |-> FALSE, value |-> OutlineExecute(input),
           sources |-> cur, matched |-> None]}

\* citations of every registered tool that exposes them (the retrieval tool)
get_last_sources(cur) == cur

reset_sources(cur) == <<>>

(***************************************************************************)
(* The model backend (external collaborator): the responses a request can  *)
(* get.  Tool-use ids are unique within a query.                           *)
(***************************************************************************)
AnswerTexts == {<<"answer A">>, <<"answer B">>}

LeadText == <<"Let me look that up.">>

ToolCalls ==
    {[name |-> SEARCH, input |-> [query |-> "x"]],
     [name |-> SEARCH, input |-> [course_name |-> "A"]],
     [name |-> OUTLINE, input |-> [course_name |-> "A"]],
     [name |-> "unknown_tool", input |-> [query |-> "x"]]}

CallSeqs(n) == UNION {[1..k -> ToolCalls] : k \in 0..n}

RECURSIVE ToolUseCount(_)
\* number of tool-use blocks the backend has issued in msgs
ToolUseCount(msgs) ==
    IF msgs = <<>> THEN 0
    ELSE ToolUseCount(SubSeq(msgs, 1, Len(msgs) - 1))
         + (IF Last(msgs).role = "assistant"
               THEN Cardinality({j \in 1..Len(Last(msgs).content) :
                                    Last(msgs).content[j].type = "tool_use"})
               ELSE 0)

ToolUseContent(calls, firstId) ==
    [k \in 1..Len(calls) |-> ToolUseBlock(calls[k].name, firstId + k - 1, calls[k].input)]

\* make_text_response
TextResponses(stops) ==
    {[stop_reason |-> s, content |-> <<TextBlock(t)>>] : s \in stops, t \in AnswerTexts}

\* make_tool_use_response, with an optional leading text block
ToolUseResponses(msgs) ==
    LET used == ToolUseCount(msgs)
        most == IF tool_budget - used < MaxBlocks THEN tool_budget - used ELSE MaxBlocks
        contents == {lead \o ToolUseContent(calls, used + 1) :
                        lead \in {<<>>, <<TextBlock(LeadText)>>},
                        calls \in CallSeqs(most)}
    IN  {[stop_reason |-> "tool_use", content |-> c] : c \in contents \ {<<>>}}

BackendFailure == [stop_reason |-> "error", content |-> <<>>]

\* client.messages.create(**params): every response the backend may give
create(params) ==
    {BackendFailure}
        \cup (IF "tools" \in DOMAIN params
                 THEN TextResponses({"end_turn", "max_tokens"})
                        \cup ToolUseResponses(params.messages)
                 ELSE TextResponses({"end_turn", "tool_use"}))

(***************************************************************************)
(* AIGenerator.generate_response                                           *)
(***************************************************************************)
SystemContent(conversation_history) ==
    IF conversation_history # None
       THEN SYSTEM_PROMPT \o <<"\n\nPrevious conversation:\n">> \o conversation_history
       ELSE SYSTEM_PROMPT

InitialMessages(query) == <<Message("user", query)>>

\* faulty variant: the catalog is offered in the first round only
api_params_first_round ==
    [messages |-> messages, system |-> system_content] @@ base_params
        @@ (IF tools # None /\ round = 0
               THEN [tools |-> tools, tool_choice |-> [type |-> "auto"]]
               ELSE <<>>)

\* api_params of the round loop
api_params ==
    [messages |-> messages, system |-> system_content] @@ base_params
        @@ (IF tools # None
               THEN [tools |-> tools, tool_choice |-> [type |-> "auto"]]
               ELSE <<>>)

\* faulty variant: the synthesis call is sent with the preamble alone
final_params_preamble == [messages |-> messages, system |-> SYSTEM_PROMPT] @@ base_params

\* faulty variant: the synthesis call reuses the parameters of the loop
final_params_with_tools == api_params

\* final_params of the synthesis call
final_params == [messages |-> messages, system |-> system_content] @@ base_params

\* faulty variant: the loop goes on for as long as the model asks for tools
LoopUntilAnswered(r) == TRUE

\* faulty variant: range(MAX_TOOL_ROUNDS + 1)
LoopContinuesOnceMore(r) == r < MAX_TOOL_ROUNDS + 1

\* range(MAX_TOOL_ROUNDS): another iteration follows r completed ones
LoopContinues(r) == r < MAX_TOOL_ROUNDS

\* faulty variant: a tool_use response without tool-use block ends the loop
NaturalEndWithoutBlocks(resp) ==
    \/ resp.stop_reason # "tool_use"
    \/ ~tool_manager
    \/ \A k \in DOMAIN resp.content : resp.content[k].type # "tool_use"

\* faulty variant: only "end_turn" is taken as the natural end
NaturalEndOnEndTurn(resp) == resp.stop_reason = "end_turn" \/ ~tool_manager

\* line 88: the response ends the invocation
NaturalEnd(resp) == resp.stop_reason # "tool_use" \/ ~tool_manager

\* the request raised: the failure propagates out of the query
\* faulty variant: the failure is swallowed and its text returned as the answer
PropagateAsAnswer(e) ==
    /\ result' = <<e>>
    /\ pc' = IF via = "generate" THEN "done" ELSE "read"
    /\ trace' = trace \o <<Call("messages.create"), Call("return")>>
    /\ UNCHANGED <<round, response, bi, tool_results, had_error, exc, http_response>>

\* an exception of messages.create (or of reading the answer) leaves
\* generate_response, query and the endpoint, which answers with status 500
Propagate(e) ==
    /\ exc' = e
    /\ pc' = "failed"
    /\ trace' = trace \o <<Call("messages.create"), Call("raise")>>
    /\ http_response' = IF via = "api" THEN <<[status |-> 500]>> ELSE None
    /\ UNCHANGED <<round, response, bi, tool_results, had_error, result>>

\* return resp.content[0].text
ReturnText(resp) ==
    IF resp.content # <<>> /\ resp.content[1].type = "text"
       THEN /\ result' = <<resp.content[1].text>>
            /\ pc' = IF via = "generate" THEN "done" ELSE "read"
            /\ trace' = trace \o <<Call("messages.create"), Call("return")>>
            /\ UNCHANGED <<round, response, bi, tool_results, had_error, exc,
                           http_response>>
       ELSE Propagate(<<"no text in content[0]">>)

LogRequest(params, phase, resp) ==
    requests' = Append(requests, [params |-> params, phase |-> phase, response |-> resp])

ModelRequest ==
    /\ pc = "request"
    /\ \E resp \in create(api_params) :
          /\ LogRequest(api_params, "loop", resp)
          /\ IF resp = BackendFailure THEN Propagate(<<"model backend failure">>)
             ELSE IF NaturalEnd(resp) THEN ReturnText(resp)
             ELSE /\ response' = resp
                  /\ bi' = 1
                  /\ tool_results' = <<>>
                  /\ had_error' = FALSE
                  /\ pc' = "exec"
                  /\ trace' = Append(trace, Call("messages.create"))
                  /\ UNCHANGED <<round, result, exc, http_response>>
    /\ UNCHANGED <<messages, system_content, tools, tool_manager,
                   last_sources, sources, execs, searches, sessions, reply>>
    /\ UNCHANGED callVars
    /\ UNCHANGED concVars

\* faulty variant: the registry's own error is not caught
CaughtExceptLookup(out) == out.value[1] # "No such tool: "

\* faulty variant: only the registry's own error is caught
CaughtLookupOnly(out) == out.value[1] = "No such tool: "

\* line 131: except Exception
Caught(out) == TRUE

\* faulty variant: the blocks are visited from the last to the first
BlockAtReversed(resp, i) == resp.content[Len(resp.content) + 1 - i]

\* line 119: for content_block in response.content, the i-th iteration
BlockAt(resp, i) == resp.content[i]

\* faulty variant: the result is keyed by the block's position in the response
ResultIdByPosition(resp, i) == i

\* lines 128, 134: "tool_use_id": content_block.id
ResultId(resp, i) == BlockAt(resp, i).id

\* lines 117, 137: had_error after one more tool call
HadError(before, out) == before \/ out.raised

\* faulty variant: the message of the error is passed on without the marker
ResultContentUnmarked(out) == out.value

\* lines 129, 135: the value returned, or the marker and the error's message
ResultContent(out) == IF out.raised THEN ErrorMarker \o out.value ELSE out.value

\* faulty variant: the blocks after one that raised are skipped
AfterBlockUntilError(resp, i, raised) == IF raised THEN Len(resp.content) + 1 ELSE i + 1

\* the for loop goes on to the next block, also after an except
AfterBlock(resp, i, raised) == i + 1

\* one iteration of the loop of _execute_tool_calls
ExecBlock ==
    /\ pc = "exec"
    /\ bi <= Len(response.content)
    /\ LET content_block == BlockAt(response, bi) IN
       IF content_block.type = "tool_use"
          THEN \E out \in execute_tool(content_block.name, content_block.input, last_sources) :
                  /\ last_sources' = out.sources
                  /\ execs' = Append(execs, [id |-> content_block.id,
                                             name |-> content_block.name,
                                             raised |-> out.raised,
                                             value |-> out.value,
                                             round |-> round + 1,
                                             after |-> Len(requests)])
                  /\ searches' = IF out.matched # None
                                    THEN Append(searches, out.matched[1])
                                    ELSE searches
                  /\ trace' = Append(trace, Call("execute_tool"))
                  /\ IF out.raised /\ ~Caught(out)
                        THEN /\ exc' = out.value
                             /\ pc' = "failed"
                             /\ UNCHANGED <<bi, tool_results, had_error>>
                        ELSE /\ tool_results' =
                                    Append(tool_results,
                                           ToolResult(ResultId(response, bi), ResultContent(out)))
                             /\ had_error' = HadError(had_error, out)
                             /\ bi' = AfterBlock(response, bi, out.raised)
                             /\ UNCHANGED <<pc, exc>>
          ELSE /\ bi' = bi + 1
               /\ UNCHANGED <<pc, exc, tool_results, had_error, last_sources, execs,
                              searches, trace>>
    /\ UNCHANGED <<messages, system_content, tools, tool_manager,
                   round, response, result, sources, requests, sessions, reply,
                   http_response>>
    /\ UNCHANGED callVars
    /\ UNCHANGED concVars

\* faulty variant: only the query and the latest round are kept
ExtendFromQuery(msgs, new) == <<msgs[1]>> \o new

\* lines 92-93: messages.append, twice
Extend(msgs, new) == msgs \o new

\* faulty variant: every tool result becomes a user message of its own
RoundMessagesUnbundled(resp, results) ==
    <<Message("assistant", resp.content)>>
        \o [i \in 1..Len(results) |-> Message("user", <<results[i]>>)]

\* faulty variant: the tool results are appended before the tool-use turn
RoundMessagesSwapped(resp, results) ==
    <<Message("user", results), Message("assistant", resp.content)>>

\* lines 92-93
RoundMessages(resp, results) ==
    <<Message("assistant", resp.content), Message("user", results)>>

\* faulty variant: the loop goes on after a failed round
NoBreak(err) == FALSE

\* line 96: if had_error: break
Break(err) == err

\* lines 91-97: _execute_tool_calls has returned
FinishRound ==
    /\ pc = "exec"
    /\ bi > Len(response.content)
    /\ messages' = Extend(messages, RoundMessages(response, tool_results))
    /\ IF Break(had_error)
          THEN /\ pc' = "synthesis"
               /\ round' = round
          ELSE /\ round' = round + 1
               /\ pc' = IF LoopContinues(round + 1) THEN "request" ELSE "synthesis"
    /\ UNCHANGED <<system_content, tools, tool_manager, response, bi,
                   tool_results, had_error, result, exc, last_sources, sources,
                   requests, execs, searches, sessions, reply, http_response, trace>>
    /\ UNCHANGED callVars
    /\ UNCHANGED concVars

\* faulty variant: the loop is left without the synthesis request
SynthesisSkipped ==
    /\ pc = "synthesis"
    /\ exc' = <<"unresolved">>
    /\ pc' = "failed"
    /\ UNCHANGED <<messages, system_content, tools, tool_manager, round, response,
                   bi, tool_results, had_error, result, last_sources, sources,
                   requests, execs, searches, sessions, reply, http_response, trace>>
    /\ UNCHANGED callVars
    /\ UNCHANGED concVars

\* lines 99-107
Synthesis ==
    /\ pc = "synthesis"
    /\ \E resp \in create(final_params) :
          /\ LogRequest(final_params, "synthesis", resp)
          /\ IF resp = BackendFailure THEN Propagate(<<"model backend failure">>)
             ELSE ReturnText(resp)
    /\ UNCHANGED <<messages, system_content, tools, tool_manager,
                   last_sources, sources, execs, searches, sessions, reply>>
    /\ UNCHANGED callVars
    /\ UNCHANGED concVars

(***************************************************************************)
(* The session store (external collaborator).                              *)
(***************************************************************************)
SessionName(n) == <<"session_", ToString(n)>>

FormatExchange(e) == <<"User: ">> \o e.user \o <<"\n", "Assistant: ">> \o e.assistant

get_conversation_history(store, id) ==
    IF id \notin DOMAIN store \/ store[id] = <<>>
       THEN None
       ELSE Join([i \in 1..Len(store[id]) |-> FormatExchange(store[id][i])], <<"\n">>)

add_exchange(store, id, user_text, assistant_text) ==
    LET e == [user |-> user_text, assistant |-> assistant_text]
    IN  IF id \in DOMAIN store
           THEN [store EXCEPT ![id] = Append(@, e)]
           ELSE store @@ (id :> <<e>>)

(***************************************************************************)
(* The query orchestrator: query(raw_text, session_id).                    *)
(***************************************************************************)
RawTexts == {<<"What is Python?">>}

\* a session id a client made up, unknown to the store
ClientSession == <<"existing-session">>

\* the session ids a caller can present
KnownSessions == DOMAIN sessions \cup {ClientSession}

Wrap(raw) == <<"Answer this question about course materials: ">> \o raw

\* what every entry point resets when a new call starts
FreshCall ==
    /\ round' = 0
    /\ response' = NoResponse
    /\ bi' = 0
    /\ tool_results' = <<>>
    /\ had_error' = FALSE
    /\ result' = None
    /\ exc' = None
    /\ sources' = <<>>
    /\ requests' = <<>>
    /\ execs' = <<>>
    /\ searches' = <<>>
    /\ reply' = None
    /\ http_response' = None
    /\ qn' = qn + 1
    /\ pc' = "request"
    /\ UNCHANGED concVars

\* steps 1-3 of query: wrap the text, fetch the history of the session if one
\* is given, and call generate_response with the registry's definitions and
\* the registry as executor; calls lists the calls made before
StartQuery(raw, sid, calls) ==
    /\ raw_text' = raw
    /\ session_id' = sid
    /\ history' =
          IF sid # None THEN get_conversation_history(sessions, sid) ELSE None
    /\ messages' = InitialMessages(Wrap(raw))
    /\ system_content' = SystemContent(history')
    /\ tools' = get_tool_definitions
    /\ tool_manager' = TRUE
    /\ trace' = calls
                  \o (IF sid # None
                         THEN <<[op |-> "get_conversation_history", id |-> sid]>>
                         ELSE <<>>)
                  \o <<Call("generate_response")>>
    /\ FreshCall

CanStart == pc \in {"idle", "done", "failed"} /\ qn < MaxQueries

\* query(raw_text) without a session id
Query ==
    /\ CanStart
    /\ \E raw \in RawTexts : StartQuery(raw, None, <<>>)
    /\ via' = "query"
    /\ tool_budget' = MaxUses
    /\ http_request' = None
    /\ UNCHANGED <<last_sources, sessions, session_counter>>

\* query(raw_text, session_id), called on the orchestrator
SessionQuery ==
    /\ CanStart
    /\ \E raw \in RawTexts, sid \in {None} \cup KnownSessions : StartQuery(raw, sid, <<>>)
    /\ via' = "query"
    /\ tool_budget' = AppUses
    /\ http_request' = None
    /\ UNCHANGED <<last_sources, sessions, session_counter>>

\* faulty variant: a session is created for every request
NeedsSessionAlways(given) == TRUE

\* the endpoint creates a session when the request names none
NeedsSession(given) == given = None

\* POST /api/query: a session is created when the request names none, then
\* the orchestrator is queried with the request's text and the session id
ApiQuery ==
    /\ CanStart
    /\ \E raw \in RawTexts, given \in {None} \cup KnownSessions :
          LET sid == IF NeedsSession(given) THEN SessionName(session_counter + 1)
                                           ELSE given
          IN  /\ http_request' = <<[query |-> raw, session_id |-> given]>>
              /\ session_counter' = IF NeedsSession(given) THEN session_counter + 1
                                                           ELSE session_counter
              /\ sessions' = IF NeedsSession(given) /\ sid \notin DOMAIN sessions
                                THEN sessions @@ (sid :> <<>>)
                                ELSE sessions
              /\ StartQuery(raw, sid,
                            IF NeedsSession(given) THEN <<Call("create_session")>>
                                                   ELSE <<>>)
    /\ via' = "api"
    /\ tool_budget' = AppUses
    /\ UNCHANGED last_sources

\* a history text handed to generate_response
SomeHistory ==
    FormatExchange([user |-> <<"Hello">>, assistant |-> <<"Hi">>])

\* generate_response called on its own, with or without history, tool
\* catalog and tool executor
Generate ==
    /\ CanStart
    /\ \E q \in RawTexts, h \in {None, SomeHistory},
          t \in {None, get_tool_definitions}, m \in BOOLEAN :
          /\ raw_text' = q
          /\ history' = h
          /\ messages' = InitialMessages(q)
          /\ system_content' = SystemContent(h)
          /\ tools' = t
          /\ tool_manager' = m
    /\ session_id' = None
    /\ trace' = <<Call("generate_response")>>
    /\ FreshCall
    /\ via' = "generate"
    /\ tool_budget' = AppUses
    /\ http_request' = None
    /\ UNCHANGED <<last_sources, sessions, session_counter>>

\* step 4, first half: sources = tool_manager.get_last_sources()
ReadSources ==
    /\ pc = "read"
    /\ sources' = get_last_sources(last_sources)
    /\ trace' = Append(trace, [op |-> "get_last_sources", value |-> sources'])
    /\ pc' = "reset"
    /\ UNCHANGED <<last_sources, requests, execs, searches, exc, sessions, reply,
                   http_response>>
    /\ UNCHANGED ctlVars
    /\ UNCHANGED callVars
    /\ UNCHANGED concVars

\* step 6: the citations returned are those read in step 4
CitationsFromRegistry(read, registry) == registry

Citations(read, registry) == read

\* the exchange is stored only for a query that has a session
\* step 5: the user text stored is the raw text of the query
StoredTextWrapped(raw) == Wrap(raw)

StoredText(raw) == raw

StoresExchangeAlways(sid) == TRUE

StoresExchange(sid) == sid # None

\* step 4, second half: tool_manager.reset_sources(); step 5: the exchange of
\* the raw text and the answer is stored if there is a session; step 6: the
\* answer and the citations are returned, and the endpoint responds
ResetSources ==
    /\ pc = "reset"
    /\ last_sources' = reset_sources(last_sources)
    /\ sessions' = IF StoresExchange(session_id)
                      THEN add_exchange(sessions, session_id, StoredText(raw_text), result[1])
                      ELSE sessions
    /\ trace' = trace \o <<Call("reset_sources")>>
                  \o (IF StoresExchange(session_id)
                         THEN <<[op |-> "add_exchange", id |-> session_id,
                                 user |-> StoredText(raw_text),
                                 assistant |-> result[1]]>>
                         ELSE <<>>)
    /\ reply' = <<[answer |-> result[1], sources |-> Citations(sources, last_sources')]>>
    /\ http_response' =
          IF via = "api"
             THEN <<[status |-> 200, answer |-> result[1],
                     sources |-> Citations(sources, last_sources'),
                     session_id |-> session_id]>>
             ELSE None
    /\ pc' = "done"
    /\ UNCHANGED <<sources, requests, execs, searches, exc>>
    /\ UNCHANGED ctlVars
    /\ UNCHANGED callVars
    /\ UNCHANGED concVars

\* one orchestrator serving one query at a time
SeqInit ==
    /\ pc = "idle"
    /\ qn = 0
    /\ raw_text = None
    /\ messages = <<>>
    /\ system_content = None
    /\ tools = None
    /\ tool_manager = FALSE
    /\ round = 0
    /\ response = NoResponse
    /\ bi = 0
    /\ tool_results = <<>>
    /\ had_error = FALSE
    /\ result = None
    /\ exc = None
    /\ last_sources = <<>>
    /\ sources = <<>>
    /\ requests = <<>>
    /\ execs = <<>>
    /\ searches = <<>>
    /\ via = "query"
    /\ session_id = None
    /\ history = None
    /\ sessions = <<>>
    /\ session_counter = 0
    /\ reply = None
    /\ http_request = None
    /\ http_response = None
    /\ tool_budget = 0
    /\ trace = <<>>

\* concurrent serving: each query runs on the registry with its own number,
\* or all on registry 1 if they share one
RegistryOfOne(p) == 1

RegistryOf(p) == IF shared THEN 1 ELSE p

ConcInit ==
    /\ registries = [r \in 1..ConcQueries |-> <<>>]
    /\ queries = [p \in 1..ConcQueries |->
                    [pc |-> "run", searches |-> 0, own |-> {}, last |-> <<>>,
                     sources |-> <<>>, reply |-> None]]

Init == SeqInit /\ shared = FALSE /\ ConcInit

Next ==
    \/ Query
    \/ ModelRequest
    \/ ExecBlock
    \/ FinishRound
    \/ Synthesis
    \/ ReadSources
    \/ ResetSources

Spec == Init /\ [][Next]_vars

\* a step of generate_response: the code is sequential and goes on whenever
\* the call it waits for (messages.create, execute_tool) returns
ControllerStep == ModelRequest \/ ExecBlock \/ FinishRound \/ Synthesis

\* query(raw_text) on an orchestrator that serves LiveCalls queries
QueryLive ==
    /\ pc \in {"idle", "done", "failed"}
    /\ qn < LiveCalls
    /\ \E raw \in RawTexts : StartQuery(raw, None, <<>>)
    /\ via' = "query"
    /\ tool_budget' = LiveUses
    /\ http_request' = None
    /\ UNCHANGED <<last_sources, sessions, session_counter>>

NextLive ==
    \/ QueryLive
    \/ ModelRequest
    \/ ExecBlock
    \/ FinishRound
    \/ Synthesis
    \/ ReadSources
    \/ ResetSources

SpecLive == Init /\ [][NextLive]_vars /\ WF_vars(ControllerStep)

\* the application: the endpoint and the orchestrator with sessions, and
\* generate_response on its own
NextApp ==
    \/ ApiQuery
    \/ SessionQuery
    \/ Generate
    \/ ModelRequest
    \/ ExecBlock
    \/ FinishRound
    \/ Synthesis
    \/ ReadSources
    \/ ResetSources

SpecApp == Init /\ [][NextApp]_vars

(***************************************************************************)
(* Concurrent serving: ConcQueries queries of the orchestrator run at the  *)
(* same time, on one shared registry or on one registry each.  Of a query  *)
(* only the steps that touch the citation list are kept: the executions of *)
(* the retrieval tool inside generate_response, the return of              *)
(* generate_response, the read and the reset.                              *)
(***************************************************************************)
seqVars == <<pc, qn, raw_text, messages, system_content, tools, tool_manager, round,
             response, bi, tool_results, had_error, result, exc, last_sources,
             sources, requests, execs, searches, via, session_id, history,
             sessions, session_counter, reply, http_request, http_response,
             tool_budget, trace>>

\* the retrieval tool runs for query p and overwrites the list of its registry
ConcSearch(p) ==
    /\ queries[p].pc = "run"
    /\ queries[p].searches < ConcSearches
    /\ \E r \in StoreSearch :
          LET out == SearchExecute([query |-> "x"], r, registries[RegistryOf(p)])
          IN  /\ registries' = [registries EXCEPT ![RegistryOf(p)] = out.sources]
              /\ queries' = [queries EXCEPT ![p].searches = @ + 1,
                                            ![p].own = @ \cup Range(out.sources),
                                            ![p].last = out.sources]
    /\ UNCHANGED shared
    /\ UNCHANGED seqVars

\* generate_response returns to query p
ConcAnswer(p) ==
    /\ queries[p].pc = "run"
    /\ queries' = [queries EXCEPT ![p].pc = "read"]
    /\ UNCHANGED <<shared, registries>>
    /\ UNCHANGED seqVars

\* step 4, first half, of query p
ConcRead(p) ==
    /\ queries[p].pc = "read"
    /\ queries' = [queries EXCEPT ![p].pc = "reset",
                                  ![p].sources = get_last_sources(registries[RegistryOf(p)])]
    /\ UNCHANGED <<shared, registries>>
    /\ UNCHANGED seqVars

\* step 4, second half, and step 6 of query p
ConcReset(p) ==
    /\ queries[p].pc = "reset"
    /\ registries' = [registries EXCEPT ![RegistryOf(p)] = reset_sources(@)]
    /\ queries' = [queries EXCEPT ![p].pc = "done",
                                  ![p].reply = <<queries[p].sources>>]
    /\ UNCHANGED shared
    /\ UNCHANGED seqVars

InitConc == SeqInit /\ shared \in BOOLEAN /\ ConcInit

NextConc ==
    \/ \E p \in 1..ConcQueries : ConcSearch(p)
    \/ \E p \in 1..ConcQueries : ConcAnswer(p)
    \/ \E p \in 1..ConcQueries : ConcRead(p)
    \/ \E p \in 1..ConcQueries : ConcReset(p)

SpecConc == InitConc /\ [][NextConc]_vars

(***************************************************************************)
(* Properties.                                                             *)
(***************************************************************************)
Returned == pc \in {"read", "reset", "done"}

Ended == Returned \/ pc = "failed"

HasTools(req) == "tools" \in DOMAIN req.params \/ "tool_choice" \in DOMAIN req.params

ResponseText(req) == <<req.response.content[1].text>>

AllRequestsSucceeded == \A i \in 1..Len(requests) : requests[i].response # BackendFailure

SomeToolRaised == \E i \in 1..Len(execs) : execs[i].raised

\* C1: the number of model requests issued during one invocation of
\* generate_response never exceeds MAX_TOOL_ROUNDS + 1.
C1_RequestBound == Len(requests) <= MAX_TOOL_ROUNDS + 1

C1_Witness == pc = "done" /\ Len(requests) = MAX_TOOL_ROUNDS + 1 /\ Len(execs) = MaxUses

\* C2: when the first model response has a stop reason other than tool_use,
\* exactly one model request is issued, no tool is executed, no message is
\* appended, and the text of that response is returned unchanged.
C2_DirectAnswer ==
    (requests # <<>> /\ requests[1].response.stop_reason \notin {"tool_use", "error"})
        => /\ Len(requests) = 1
           /\ execs = <<>>
           /\ messages = InitialMessages(Wrap(raw_text))
           /\ Returned
           /\ result = ResponseText(requests[1])

C2_Witness ==
    /\ pc = "done"
    /\ Len(requests) = 1
    /\ requests[1].response.stop_reason = "max_tokens"
    /\ result = <<(<<"answer B">>)>>

\* C3: when a tool call raises in some round, no later round is performed,
\* the only model request after that round's is the synthesis request, which
\* carries no tool catalog, and the invocation returns that request's text.
C3_RaiseEndsLoop ==
    \A i \in 1..Len(execs) :
        execs[i].raised =>
            /\ Len(requests) <= execs[i].after + 1
            /\ round = execs[i].round - 1
            /\ \A j \in 1..Len(execs) : execs[j].after <= execs[i].after
            /\ Len(requests) = execs[i].after + 1
                  => /\ ~HasTools(Last(requests))
                     /\ Last(requests).phase = "synthesis"
            /\ Ended => Len(requests) = execs[i].after + 1
            /\ Returned => result = ResponseText(Last(requests))

C3_Witness ==
    /\ pc = "done"
    /\ \E i \in 1..Len(execs) : execs[i].raised /\ execs[i].round = MAX_TOOL_ROUNDS
    /\ Len(requests) = MAX_TOOL_ROUNDS + 1
    /\ result = ResponseText(Last(requests))

\* C4: when the round loop ends without a return inside it (a failed round or
\* the rounds exhausted), exactly one more model request is issued, with the
\* accumulated messages and the system directive and with neither tools nor
\* tool_choice; its text is returned and no tool is executed after it,
\* whatever its stop reason.
C4_SynthesisCall ==
    /\ \A i \in 1..Len(requests) :
          requests[i].phase = "synthesis"
             => /\ i = Len(requests)
                /\ Ended
                /\ requests[i].params.messages = messages
                /\ requests[i].params.system = system_content
                /\ ~HasTools(requests[i])
                /\ \A j \in 1..Len(execs) : execs[j].after < i
                /\ requests[i].response # BackendFailure
                      => Returned /\ result = ResponseText(requests[i])
    /\ (Ended /\ (had_error \/ round = MAX_TOOL_ROUNDS))
          => /\ Last(requests).phase = "synthesis"
             /\ \A i \in 1..(Len(requests) - 1) : requests[i].phase = "loop"
    /\ pc = "synthesis" => \A i \in 1..Len(requests) : requests[i].phase = "loop"

C4_Witness ==
    /\ pc = "done"
    /\ round = MAX_TOOL_ROUNDS
    /\ Last(requests).phase = "synthesis"
    /\ Last(requests).response.stop_reason = "tool_use"
    /\ result = ResponseText(Last(requests))

\* the messages of the failures tool_manager.execute_tool can raise
ToolFailures ==
    UNION {{o.value : o \in {x \in execute_tool(c.name, c.input, <<>>) : x.raised}} :
              c \in ToolCalls}

\* C5: a failure raised by execute_tool never propagates out of
\* generate_response; when every model request succeeds the invocation ends
\* by returning a text, also after a tool has raised.
C5_ToolFailureContained ==
    /\ exc \notin ToolFailures
    /\ pc = "failed" => ~AllRequestsSucceeded
    /\ (Ended /\ AllRequestsSucceeded) => (Returned /\ result # None /\ exc = None)

C5_Witness ==
    /\ pc = "done"
    /\ \E i \in 1..Len(execs) : execs[i].raised /\ execs[i].name = SEARCH
    /\ \E i \in 1..Len(execs) : execs[i].raised /\ execs[i].name # SEARCH
    /\ result # None

\* C6: each tool round appends exactly two messages, the assistant tool-use
\* message and then one user message bundling the round's tool results, so
\* the n-th model request of a query carries 2n-1 messages.
C6_TwoMessagesPerRound ==
    \A n \in 1..Len(requests) :
        LET msgs == requests[n].params.messages IN
        /\ Len(msgs) = 2 * n - 1
        /\ n > 1 =>
              /\ SubSeq(msgs, 1, 2 * n - 3) = requests[n - 1].params.messages
              /\ msgs[2 * n - 2] = Message("assistant", requests[n - 1].response.content)
              /\ msgs[2 * n - 1].role = "user"
              /\ \A k \in 1..Len(msgs[2 * n - 1].content) :
                    msgs[2 * n - 1].content[k].type = "tool_result"

C6_Witness ==
    /\ Len(requests) = 3
    /\ Len(requests[3].params.messages) = 5
    /\ Len(requests[2].params.messages[3].content) = 2

\* C7: the message sequence always alternates user, assistant, user, ...,
\* starting with the user message of the query, and the last message of
\* every model request has role user.
C7_RolesAlternate ==
    /\ \A i \in 1..Len(messages) :
          messages[i].role = (IF i % 2 = 1 THEN "user" ELSE "assistant")
    /\ qn > 0 => Len(messages) >= 1 /\ messages[1] = Message("user", Wrap(raw_text))
    /\ \A n \in 1..Len(requests) :
          LET msgs == requests[n].params.messages IN
          /\ Last(msgs).role = "user"
          /\ \A i \in 1..Len(msgs) :
                msgs[i].role = (IF i % 2 = 1 THEN "user" ELSE "assistant")

C7_Witness == Len(messages) = 5 /\ Len(requests) = 3 /\ messages[4].role = "assistant"

\* C8: every tool result of a bundled user message carries the id of a
\* tool-use block of the assistant message right before it, never an id of
\* an earlier round or one the model did not issue.
C8_ResultIdsMatch ==
    /\ \A i \in 2..Len(messages) :
          messages[i].role = "user" =>
             \A k \in 1..Len(messages[i].content) :
                \E j \in 1..Len(messages[i - 1].content) :
                   /\ messages[i - 1].content[j].type = "tool_use"
                   /\ messages[i - 1].content[j].id = messages[i].content[k].tool_use_id
    /\ pc = "exec" =>
          \A k \in 1..Len(tool_results) :
             \E j \in 1..Len(response.content) :
                /\ response.content[j].type = "tool_use"
                /\ response.content[j].id = tool_results[k].tool_use_id

C8_Witness ==
    /\ Len(messages) = 5
    /\ Len(messages[3].content) >= 1
    /\ Len(messages[5].content) = 2
    /\ messages[5].content[2].tool_use_id # messages[3].content[1].tool_use_id

\* C9: the citations a query returns come only from the retrieval executions
\* of that same query, whatever happened in the queries before it; a query
\* that performed no search returns no citation.
C9_NoCitationLeak ==
    pc = "done" =>
        sources = (IF searches = <<>> THEN <<>>
                   ELSE SearchSources(SearchResults(Last(searches), None)))

\* C10: every execution of the retrieval tool leaves in its citation list one
\* citation per chunk that execution matched and nothing of an earlier
\* execution.
C10_CitationsOverwritten ==
    [][Len(searches') = Len(searches) + 1
          => /\ Len(last_sources') = Len(Last(searches'))
             /\ \A i \in 1..Len(last_sources') :
                   last_sources'[i] = Citation(Last(searches')[i])]_vars

C10_Witness ==
    /\ Len(searches) = 2
    /\ Len(searches[1]) = 2
    /\ Len(searches[2]) = 1
    /\ Len(last_sources) = 1


(***************************************************************************)
(* The calls of the running query, read off its trace.                     *)
(***************************************************************************)
Calls(op) == {i \in DOMAIN trace : trace[i].op = op}

\* the position of the only call of op
TheCall(op) == CHOOSE i \in Calls(op) : TRUE

\* the calls generate_response makes and the points where it starts and ends
ControllerOps == {"generate_response", "messages.create", "execute_tool", "return", "raise"}

\* the orchestrator's query has returned
QueryReturned == pc = "done" /\ via # "generate"

\* C11: every query of the orchestrator that returns has read the citations
\* of the registry exactly once and reset them exactly once, the read before
\* the reset and both after generate_response returned, whether or not a tool
\* ran; the citations it returns are those it read.
C11_ReadThenReset ==
    QueryReturned =>
        /\ Cardinality(Calls("get_last_sources")) = 1
        /\ Cardinality(Calls("reset_sources")) = 1
        /\ Cardinality(Calls("return")) = 1
        /\ TheCall("return") < TheCall("get_last_sources")
        /\ TheCall("get_last_sources") < TheCall("reset_sources")
        /\ \A i \in DOMAIN trace :
              trace[i].op \in ControllerOps => i < TheCall("get_last_sources")
        /\ reply = <<[answer |-> result[1],
                      sources |-> trace[TheCall("get_last_sources")].value]>>
        /\ last_sources = <<>>

\* a query that searched returns the citations of its search
C11_Witness ==
    /\ QueryReturned
    /\ execs # <<>>
    /\ reply[1].sources # <<>>

\* a query that ran no tool reads and resets all the same
C11_WitnessNoTool ==
    /\ QueryReturned
    /\ execs = <<>>
    /\ Calls("reset_sources") # {}


\* the exchanges the store holds for a session id
Exchanges(store, id) == IF id \in DOMAIN store THEN store[id] ELSE <<>>

\* the session ids of two stores
SessionIds(a, b) == DOMAIN a \cup DOMAIN b

OrchestratorCall == via # "generate"

\* the calls a query makes on the session store, as its trace shows them
C12_SessionCalls ==
    OrchestratorCall /\ pc # "idle" =>
        IF session_id = None
           THEN /\ Calls("get_conversation_history") = {}
                /\ Calls("add_exchange") = {}
           ELSE /\ Cardinality(Calls("get_conversation_history")) = 1
                /\ trace[TheCall("get_conversation_history")].id = session_id
                /\ TheCall("get_conversation_history") < TheCall("generate_response")
                /\ history = get_conversation_history(sessions, session_id)
                      \/ QueryReturned
                /\ \A i \in Calls("add_exchange") :
                      /\ trace[i].id = session_id
                      /\ Calls("return") # {} /\ TheCall("return") < i
                /\ Cardinality(Calls("add_exchange")) = IF QueryReturned THEN 1 ELSE 0

\* what a step of a query does to the exchanges of the store
C12_SessionSteps ==
    OrchestratorCall' =>
        \A id \in SessionIds(sessions, sessions') :
            IF pc = "reset" /\ session_id # None /\ id = session_id
               THEN /\ Len(Exchanges(sessions', id)) = Len(Exchanges(sessions, id)) + 1
                    /\ SubSeq(Exchanges(sessions', id), 1, Len(Exchanges(sessions, id)))
                          = Exchanges(sessions, id)
               ELSE Exchanges(sessions', id) = Exchanges(sessions, id)

\* C12: a query without a session id never calls get_conversation_history or
\* add_exchange and changes no stored history; a query with a session id
\* fetches the history once, for that id, before generate_response is called,
\* and appends exactly one exchange, for that id, after it returned.
C12_SessionStoreUse == []C12_SessionCalls /\ [][C12_SessionSteps]_vars

\* a second query on a session returns: its history was fetched and is not empty
C12_Witness ==
    /\ QueryReturned
    /\ session_id # None
    /\ history # None
    /\ Len(sessions[session_id]) = 2


\* C13: the first user message generate_response sends to the model is the
\* wrapped text of the query; the exchange stored for a query with a session
\* pairs the raw text with the answer returned, and no stored user text is a
\* wrapped one.
C13_RawTextStored ==
    /\ OrchestratorCall /\ pc # "idle" =>
          /\ messages[1] = Message("user", Wrap(raw_text))
          /\ \A i \in DOMAIN requests :
                requests[i].params.messages[1] = Message("user", Wrap(raw_text))
    /\ QueryReturned /\ session_id # None =>
          /\ Last(sessions[session_id]) =
                [user |-> raw_text, assistant |-> reply[1].answer]
          /\ <<reply[1].answer>> = ResponseText(Last(requests))
    /\ \A id \in DOMAIN sessions : \A i \in DOMAIN sessions[id] :
          /\ sessions[id][i].user \in RawTexts
          /\ sessions[id][i].user \notin {Wrap(raw) : raw \in RawTexts}

\* a query with a session returns after a tool round
C13_Witness ==
    /\ QueryReturned
    /\ session_id # None
    /\ Len(requests) = 2
    /\ sessions[session_id] # <<>>


\* C14: with a tool catalog supplied, every request of the round loop carries
\* that catalog and tool_choice auto; with none supplied, no request carries
\* tools or tool_choice.
C14_CatalogInLoop ==
    \A i \in DOMAIN requests :
        IF tools # None
           THEN requests[i].phase = "loop" =>
                   /\ "tools" \in DOMAIN requests[i].params
                   /\ "tool_choice" \in DOMAIN requests[i].params
                   /\ requests[i].params.tools = tools
                   /\ requests[i].params.tool_choice = [type |-> "auto"]
           ELSE ~HasTools(requests[i])

\* two requests of the loop were sent with a catalog supplied
C14_Witness ==
    /\ tools # None
    /\ Len(requests) = 2
    /\ requests[1].phase = "loop"
    /\ requests[2].phase = "loop"

\* two requests were sent with no catalog supplied
C14_WitnessNoCatalog ==
    /\ tools = None
    /\ Len(requests) = 2


\* the tool-use blocks of a response
ToolUses(resp) == {k \in DOMAIN resp.content : resp.content[k].type = "tool_use"}

\* the model asked for one tool in each of the MAX_TOOL_ROUNDS rounds
AskedEveryRound ==
    /\ Len(requests) >= MAX_TOOL_ROUNDS
    /\ \A i \in 1..MAX_TOOL_ROUNDS :
          /\ requests[i].response.stop_reason = "tool_use"
          /\ Cardinality(ToolUses(requests[i].response)) = 1

\* C15: when the model asks for one tool in every one of the MAX_TOOL_ROUNDS
\* rounds and no tool fails, the invocation that returns has issued exactly
\* MAX_TOOL_ROUNDS + 1 requests (3) and MAX_TOOL_ROUNDS tool executions (2);
\* the last request carries no catalog and its response's text is returned.
C15_ExhaustedRounds ==
    Returned /\ tool_manager /\ AskedEveryRound /\ ~SomeToolRaised =>
        /\ Len(requests) = MAX_TOOL_ROUNDS + 1
        /\ Len(requests) = 3
        /\ Len(execs) = MAX_TOOL_ROUNDS
        /\ Len(execs) = 2
        /\ ~HasTools(Last(requests))
        /\ Last(requests).phase = "synthesis"
        /\ result = ResponseText(Last(requests))

C15_Witness ==
    /\ Returned
    /\ tool_manager
    /\ AskedEveryRound
    /\ ~SomeToolRaised
    /\ Len(execs) = 2


\* the tool results produced so far in this query: those of the rounds
\* already in messages and those of the round in progress
AllToolResults ==
    UNION {Range(messages[k].content) : k \in {j \in DOMAIN messages : j > 1 /\ j % 2 = 1}}
        \cup Range(tool_results)

\* the text of the error a tool execution left in its Tool Result
IsErrorText(content) ==
    /\ Len(content) > Len(ErrorMarker)
    /\ SubSeq(content, 1, Len(ErrorMarker)) = ErrorMarker

\* C16: a call of a tool name that is not registered ends like a tool
\* execution error: the Tool Result of the block carries the error-marked
\* text, the round is flagged as failed, no further round is performed, and
\* exactly one request follows, the synthesis request without tools.
C16_UnknownToolContained ==
    \A i \in 1..Len(execs) :
        execs[i].name \notin Range(Registered) =>
            /\ execs[i].raised
            /\ pc # "failed" \/ Last(requests).response = BackendFailure
            /\ \E r \in AllToolResults :
                  /\ r.tool_use_id = execs[i].id
                  /\ IsErrorText(r.content)
                  /\ r.content = ErrorMarker \o <<"No such tool: ", execs[i].name>>
            /\ had_error
            /\ round = execs[i].round - 1
            /\ \A j \in 1..Len(execs) : execs[j].after <= execs[i].after
            /\ Len(requests) <= execs[i].after + 1
            /\ Len(requests) = execs[i].after + 1
                  => /\ ~HasTools(Last(requests))
                     /\ Last(requests).phase = "synthesis"
            /\ Ended => Len(requests) = execs[i].after + 1

\* a query that asked for an unregistered tool in its second round returned
\* the text of the synthesis request
C16_Witness ==
    /\ pc = "done"
    /\ \E i \in 1..Len(execs) :
          /\ execs[i].name \notin Range(Registered)
          /\ execs[i].round = MAX_TOOL_ROUNDS
    /\ Last(requests).phase = "synthesis"
    /\ result = ResponseText(Last(requests))


\* the model requests of this query that failed
FailedRequests == {i \in DOMAIN requests : requests[i].response = BackendFailure}

\* C17: a model request that fails, be it the first, one of a later round or
\* the synthesis request, ends the query with the failure: generate_response
\* and query return nothing, no request and no tool execution follows, and no
\* exchange is appended to the history of the session.
C17_BackendFailurePropagates ==
    \A i \in FailedRequests :
        /\ i = Len(requests)
        /\ pc = "failed"
        /\ exc # None
        /\ result = None
        /\ reply = None
        /\ \A j \in DOMAIN execs : execs[j].after < i
        /\ Calls("return") = {}
        /\ Calls("get_last_sources") = {}
        /\ Calls("add_exchange") = {}
        /\ session_id # None => get_conversation_history(sessions, session_id) = history
        /\ via = "api" => http_response = <<[status |-> 500]>>

\* the synthesis request of a query with a session failed
C17_Witness ==
    /\ FailedRequests # {}
    /\ Last(requests).phase = "synthesis"
    /\ session_id # None
    /\ history # None

\* the first request failed
C17_WitnessFirst == FailedRequests = {1}

\* the request of the second round failed
C17_WitnessLater ==
    /\ FailedRequests = {2}
    /\ requests[2].phase = "loop"


\* query p returned a citation that none of its own searches produced and a
\* search of another query did
Leak(p) ==
    /\ queries[p].reply # None
    /\ \E c \in Range(queries[p].reply[1]) :
          /\ c \notin queries[p].own
          /\ \E q \in 1..ConcQueries : q # p /\ c \in queries[q].own

\* C18: with one registry per query no query returns a citation of another
\* query's search: what it returns are the citations of its own last search
\* (none if it did not search).  With one shared registry a query can return
\* citations of another query's search (C18_Witness).
C18_IsolatedNoLeak ==
    ~shared =>
        \A p \in 1..ConcQueries :
            /\ ~Leak(p)
            /\ queries[p].reply # None => queries[p].reply[1] = queries[p].last

\* two queries on one shared registry: one returned a citation of the
\* other's search
C18_Witness ==
    /\ shared
    /\ \E p \in 1..ConcQueries : Leak(p)


\* generate_response is running
Running == pc \in {"request", "exec", "synthesis"}

\* the three ways an invocation is designed to end with a text
DirectAnswer ==
    /\ Last(requests).phase = "loop"
    /\ ~had_error
    /\ round < MAX_TOOL_ROUNDS

SynthesisAfterFailedRound ==
    /\ Last(requests).phase = "synthesis"
    /\ had_error
    /\ round < MAX_TOOL_ROUNDS

SynthesisAfterExhaustion ==
    /\ Last(requests).phase = "synthesis"
    /\ ~had_error
    /\ round = MAX_TOOL_ROUNDS

DesignedEnd ==
    /\ result # None
    /\ result = ResponseText(Last(requests))
    /\ DirectAnswer \/ SynthesisAfterFailedRound \/ SynthesisAfterExhaustion

\* the rounds are used up and the loop is over
Exhausted == Running /\ round = MAX_TOOL_ROUNDS

\* C19: as long as every model request and every tool execution returns, a
\* running invocation of generate_response eventually returns, and it returns
\* a text in one of the designed ways: a direct answer inside the loop, the
\* synthesis after a failed round or the synthesis after the rounds are
\* exhausted; exhaustion is always followed by the synthesis request.
C19_Terminates ==
    /\ Running ~> (Returned \/ ~AllRequestsSucceeded)
    /\ Exhausted ~> (Ended /\ Last(requests).phase = "synthesis")
    /\ [](Returned => DesignedEnd)
    /\ [](pc = "failed" => ~AllRequestsSucceeded)

\* an invocation returned the text of the synthesis after two tool rounds
C19_Witness ==
    /\ Returned
    /\ SynthesisAfterExhaustion
    /\ Len(execs) >= MAX_TOOL_ROUNDS


\* the session id of the request being served by the endpoint
GivenSession == http_request[1].session_id

\* what holds while and after the endpoint serves a request
C20_ApiState ==
    via = "api" =>
        /\ Cardinality(Calls("create_session")) = IF GivenSession = None THEN 1 ELSE 0
        /\ \A i \in Calls("create_session") : i < TheCall("generate_response")
        /\ session_id # None
        /\ session_id = IF GivenSession = None THEN SessionName(session_counter)
                                               ELSE GivenSession
        /\ raw_text = http_request[1].query
        /\ pc = "done" =>
              /\ http_response # None
              /\ http_response[1].status = 200
              /\ http_response[1].session_id = session_id
              /\ http_response[1].answer = reply[1].answer

\* what the step that accepts a request does to the session store
C20_ApiStep ==
    via' = "api" /\ qn' # qn =>
        IF http_request'[1].session_id = None
           THEN /\ session_counter' = session_counter + 1
                /\ session_id' \notin DOMAIN sessions
                /\ DOMAIN sessions' = DOMAIN sessions \cup {session_id'}
           ELSE /\ session_counter' = session_counter
                /\ sessions' = sessions

\* C20: the endpoint calls create_session exactly once if the request has no
\* session id and never if it has one; the id it passes to query, generated
\* or provided, is the id it returns in the response.
C20_SessionOfRequest == []C20_ApiState /\ [][C20_ApiStep]_vars

\* the endpoint answered a request without session id with the id it created
C20_Witness ==
    /\ via = "api"
    /\ pc = "done"
    /\ GivenSession = None
    /\ http_response[1].session_id = SessionName(session_counter)

\* the endpoint answered a request with the session id the request named
C20_WitnessProvided ==
    /\ via = "api"
    /\ pc = "done"
    /\ GivenSession # None
    /\ http_response[1].session_id = GivenSession


\* generate_response was called without a tool executor
NoExecutor == via = "generate" /\ ~tool_manager /\ pc # "idle"

\* what holds of every invocation without executor: one request at most, of
\* the loop, no tool executed, no message appended
C21_NoToolWork ==
    NoExecutor =>
        /\ Len(requests) <= 1
        /\ \A i \in DOMAIN requests : requests[i].phase = "loop"
        /\ execs = <<>>
        /\ messages = InitialMessages(raw_text)
        /\ pc \in {"request", "done", "failed"}

\* C21: without a tool executor generate_response returns after exactly one
\* model request, also when the stop reason of the response is tool_use: it
\* returns the text of the response, no tool is executed, no message is
\* appended and no synthesis request is made.
C21_ReturnsAfterOneRequest ==
    (NoExecutor /\ requests # <<>> /\ AllRequestsSucceeded) =>
        /\ C21_NoToolWork
        /\ Len(requests) = 1
        /\ pc = "done"
        /\ result = ResponseText(requests[1])

\* without executor, a tool_use response that starts with a text block is
\* answered with that text
C21_TextFirst ==
    /\ NoExecutor
    /\ Len(requests) = 1
    /\ requests[1].response.stop_reason = "tool_use"
    /\ ToolUses(requests[1].response) # {}
    /\ pc = "done"
    /\ result = <<LeadText>>

\* without executor, a tool_use response that starts with a tool-use block
\* ends the invocation with an exception
C21_ToolUseFirst ==
    /\ NoExecutor
    /\ Len(requests) = 1
    /\ requests[1].response.stop_reason = "tool_use"
    /\ requests[1].response.content[1].type = "tool_use"
    /\ pc = "failed"


\* the tool results that answer the execution e
ResultsOf(e) == {r \in AllToolResults : r.tool_use_id = e.id}

\* C22: the Tool Result of an execution that succeeded holds exactly the
\* value the tool returned, that of one that raised holds the error marker
\* followed by the error's message; the round is flagged as failed exactly
\* when one of its executions raised; the error-marked result is in the last
\* message of the synthesis request that follows.
C22_ResultContent ==
    /\ \A i \in DOMAIN execs :
          /\ ResultsOf(execs[i]) # {}
          /\ \A r \in ResultsOf(execs[i]) :
                r.content = IF execs[i].raised THEN ErrorMarker \o execs[i].value
                                               ELSE execs[i].value
          /\ ~execs[i].raised =>
                \A r \in ResultsOf(execs[i]) : ~IsErrorText(r.content)
    /\ had_error <=> SomeToolRaised
    /\ \A k \in DOMAIN requests :
          requests[k].phase = "synthesis" =>
             \A i \in DOMAIN execs :
                execs[i].raised =>
                   \E r \in Range(Last(requests[k].params.messages).content) :
                      /\ r.type = "tool_result"
                      /\ r.tool_use_id = execs[i].id
                      /\ r.content = ErrorMarker \o execs[i].value

\* a round with one execution that raised and one that succeeded, followed
\* by the synthesis request
C22_Witness ==
    /\ requests # <<>>
    /\ Last(requests).phase = "synthesis"
    /\ \E i, j \in DOMAIN execs :
          /\ execs[i].round = execs[j].round
          /\ execs[i].raised
          /\ ~execs[j].raised
          /\ execs[j].value # <<>>


\* the ids of the tool-use blocks of a response, in block order
ToolUseIds(resp) ==
    LET uses == SelectSeq(resp.content, LAMBDA b : b.type = "tool_use")
    IN  [n \in 1..Len(uses) |-> uses[n].id]

\* the ids of the executions made for the response to request k, in order
ExecIds(k) ==
    LET done == SelectSeq(execs, LAMBDA e : e.after = k)
    IN  [n \in 1..Len(done) |-> done[n].id]

\* the positions in the trace of the calls of op, in order
Positions(op) ==
    [n \in 1..Cardinality(Calls(op)) |->
        CHOOSE i \in Calls(op) : Cardinality({j \in Calls(op) : j <= i}) = n]

\* C23: the events of a query are strictly ordered: a model request, then
\* the executions of the tool-use blocks of its response, one at a time in
\* block order, then the next model request; no tool is executed before the
\* first request or after the last one, and only for a response whose stop
\* reason is tool_use.
C23_EventOrder ==
    /\ Len(Positions("messages.create")) = Len(requests)
    /\ Len(Positions("execute_tool")) = Len(execs)
    /\ \A m \in DOMAIN execs :
          /\ execs[m].after \in DOMAIN requests
          /\ requests[execs[m].after].response.stop_reason = "tool_use"
          /\ requests[execs[m].after].phase = "loop"
          /\ m > 1 => execs[m - 1].after <= execs[m].after
          /\ Positions("messages.create")[execs[m].after] < Positions("execute_tool")[m]
          /\ execs[m].after < Len(requests) =>
                Positions("execute_tool")[m] < Positions("messages.create")[execs[m].after + 1]
          /\ Ended => execs[m].after < Len(requests)
    /\ \A k \in DOMAIN requests :
          LET asked == IF requests[k].response.stop_reason = "tool_use"
                          /\ requests[k].phase = "loop"
                          THEN ToolUseIds(requests[k].response) ELSE <<>>
          IN  /\ Len(ExecIds(k)) <= Len(asked)
              /\ ExecIds(k) = SubSeq(asked, 1, Len(ExecIds(k)))
              /\ (k < Len(requests) \/ pc # "exec") => ExecIds(k) = asked

\* a round with two tool-use blocks was run, the next request was answered
\* with a text, and the query returned
C23_Witness ==
    /\ Returned
    /\ Len(requests) = 2
    /\ Len(ExecIds(1)) = 2
    /\ Len(ToolUseIds(requests[1].response)) = 2


\* a is a prefix of b
IsPrefix(a, b) == Len(a) <= Len(b) /\ SubSeq(b, 1, Len(a)) = a

\* the query passed to generate_response
QueryArg == IF via = "generate" THEN raw_text ELSE Wrap(raw_text)

\* what a step does to the messages of the running invocation
C24_MessagesStep ==
    qn' = qn => IsPrefix(messages, messages')

\* what holds of the messages the requests carried
C24_MessagesState ==
    pc # "idle" =>
        /\ messages[1] = Message("user", QueryArg)
        /\ \A k \in DOMAIN requests :
              /\ requests[k].params.messages[1] = Message("user", QueryArg)
              /\ k > 1 => /\ IsPrefix(requests[k - 1].params.messages,
                                      requests[k].params.messages)
                          /\ Len(requests[k - 1].params.messages)
                                < Len(requests[k].params.messages)
              /\ IsPrefix(requests[k].params.messages, messages)

\* C24: the messages of a query only grow: what each model request carries
\* extends what the previous request carried, no step removes, reorders or
\* alters a message, and the first message is the user message with the
\* query passed to generate_response.
C24_AppendOnly == []C24_MessagesState /\ [][C24_MessagesStep]_vars

\* three requests were sent, carrying one, three and five messages
C24_Witness ==
    /\ Len(requests) = 3
    /\ Len(requests[1].params.messages) = 1
    /\ Len(requests[2].params.messages) = 3
    /\ Len(requests[3].params.messages) = 5


\* the last n tokens of a text
Suffix(text, n) == SubSeq(text, Len(text) - n + 1, Len(text))

\* C25: every model request of a query, the synthesis request included,
\* carries the same system directive: the preamble alone if no history is
\* given, otherwise the preamble, the line that introduces the previous
\* conversation, and the history text unchanged at the end.
C25_SystemDirective ==
    \A k \in DOMAIN requests :
        LET system == requests[k].params.system
        IN  /\ system = requests[1].params.system
            /\ system = system_content
            /\ IF history = None
                  THEN system = SYSTEM_PROMPT
                  ELSE /\ IsPrefix(SYSTEM_PROMPT, system)
                       /\ Len(system) > Len(SYSTEM_PROMPT) + Len(history)
                       /\ Suffix(system, Len(history)) = history
                       /\ system = SYSTEM_PROMPT
                                     \o <<"\n\nPrevious conversation:\n">> \o history

\* a query with history went through a tool round to the synthesis request
C25_Witness ==
    /\ history # None
    /\ Len(requests) = 2
    /\ requests[1].phase = "loop"
    /\ requests[2].phase = "synthesis"
    /\ execs # <<>>


\* the rounds in messages: the positions of their user messages
RoundMessagesAt == {j \in DOMAIN messages : j > 1 /\ j % 2 = 1}

\* C26: the user message of every round holds exactly one Tool Result for
\* each tool-use block of the response of that round, in block order, and
\* each of these blocks was executed, also those that follow a block whose
\* execution raised.
C26_OneResultPerBlock ==
    \A j \in RoundMessagesAt :
        LET asked == ToolUseIds([content |-> messages[j - 1].content])
            results == messages[j].content
        IN  /\ Len(results) = Len(asked)
            /\ \A n \in DOMAIN results :
                  /\ results[n].type = "tool_result"
                  /\ results[n].tool_use_id = asked[n]
                  /\ Cardinality({m \in DOMAIN execs : execs[m].id = asked[n]}) = 1
            /\ ExecIds((j - 1) \div 2) = asked

\* in a finished round the first block raised and the second was executed
\* after it and has its own result
C26_Witness ==
    \E j \in RoundMessagesAt :
        /\ Len(messages[j].content) = 2
        /\ IsErrorText(messages[j].content[1].content)
        /\ ~IsErrorText(messages[j].content[2].content)
        /\ \E m \in DOMAIN execs :
              /\ m < Len(execs)
              /\ execs[m].raised
              /\ execs[m].id = messages[j].content[1].tool_use_id
              /\ execs[m + 1].id = messages[j].content[2].tool_use_id


\* the response to request k of the loop asked for tool use and holds no
\* tool-use block
EmptyRound(k) ==
    /\ requests[k].phase = "loop"
    /\ requests[k].response.stop_reason = "tool_use"
    /\ ToolUses(requests[k].response) = {}

\* the round of request k is over
RoundOver(k) == k < Len(requests) \/ pc # "exec"

\* C27: a response with stop reason tool_use and no tool-use block uses up a
\* round: the assistant message and a user message with no Tool Result are
\* appended, no tool is executed, the round is not flagged as failed, and
\* the next request is that of the next round or, after the last round, the
\* synthesis request.
C27_EmptyRound ==
    \A k \in DOMAIN requests :
        (tool_manager /\ EmptyRound(k)) =>
            /\ ExecIds(k) = <<>>
            /\ \A m \in DOMAIN execs : execs[m].after <= k => ~execs[m].raised
            /\ RoundOver(k) =>
                  /\ Len(messages) >= 2 * k + 1
                  /\ messages[2 * k] = Message("assistant", requests[k].response.content)
                  /\ messages[2 * k + 1] = Message("user", <<>>)
                  /\ round >= k
                  /\ k = Len(requests) =>
                        /\ ~had_error
                        /\ round = k
                        /\ pc = IF k < MAX_TOOL_ROUNDS THEN "request" ELSE "synthesis"
            /\ k < Len(requests) =>
                  /\ Len(requests[k + 1].params.messages) = 2 * k + 1
                  /\ requests[k + 1].phase =
                        IF k < MAX_TOOL_ROUNDS THEN "loop" ELSE "synthesis"

\* two rounds without tool-use block, then the synthesis request, whose
\* text is returned
C27_Witness ==
    /\ Returned
    /\ tool_manager
    /\ Len(requests) = 3
    /\ EmptyRound(1)
    /\ EmptyRound(2)
    /\ execs = <<>>
    /\ Last(requests).phase = "synthesis"

\* a round without tool-use block is followed by a round that runs a tool
C27_WitnessNextRound ==
    /\ tool_manager
    /\ Len(requests) >= 2
    /\ EmptyRound(1)
    /\ ExecIds(2) # <<>>

====
